---- MODULE Spec2Model ----
(***************************************************************************)
(* Model of src/dna_mutation_explorer_game.jsx: the NaturalSelectionBirds  *)
(* component.  Its React state is the state of the model; every event      *)
(* handler, the populationSize effect and the setTimeout callback are      *)
(* actions.  JavaScript runs a handler to completion, so while             *)
(* simulateGeneration is between its stages (pc # "idle") nothing else is  *)
(* enabled.                                                                *)
(*                                                                         *)
(* Numbers.  predatorStrength and the values of Math.random() are in       *)
(* hundredths, the fitness in 1/10000, the noise in 1/100, hence a score   *)
(* in 1/10^6; every product of the source is then an exact integer.        *)
(* Organism ids (random, used only as React keys) are left out.            *)
(***************************************************************************)
EXTENDS Integers, Sequences, FiniteSets, TLC

VARIABLES
    generation,      \* useState(1)
    populationSize,  \* useState(20), scaled to InitPopulationSize
    population,      \* useState(() => randomPopulation(populationSize))
    env,             \* useState({ seed: "mixed", predatorStrength: 0.2 })
    foodPerGen,      \* useState(18), scaled to InitFoodPerGen
    history,         \* useState([])
    message,         \* useState("")
    running,         \* useState(false)
    timers,          \* number of pending setTimeout callbacks
    pc,              \* position inside simulateGeneration
    scored,          \* local of simulateGeneration, sorted
    survivors,       \* local of simulateGeneration
    afterPredation,  \* local of simulateGeneration
    ops,             \* number of user operations so far (bounded by MaxOps)
    fit              \* the fitness harness: inputs and result of fitnessForTrait

vars == <<generation, populationSize, population, env, foodPerGen, history,
          message, running, timers, pc, scored, survivors, afterPredation,
          ops, fit>>

uiVars == <<generation, populationSize, population, env, foodPerGen, history,
            message, running, timers, pc, scored, survivors, afterPredation,
            ops>>

locals == <<scored, survivors, afterPredation>>

-----------------------------------------------------------------------------
(* Bounds of the model.  The slider range 6..60 and the initial sizes 20   *)
(* (population) and 18 (food) of the source are scaled down.               *)

MinPopSize == 1
MaxPopSize == 2
MaxOps == 2
MaxPredatorStrength == 300

PopSizes == MinPopSize..MaxPopSize
InitPopulationSize == MaxPopSize
InitFoodPerGen == IF InitPopulationSize > 1 THEN InitPopulationSize - 1 ELSE 1

(* Values Math.random() takes in the model, in hundredths of [0, 1); *)
(* multiples of 5, so that the noise is a whole number of hundredths. *)
RandLevels == {5, 50, 95}

(* The values of Math.random() the noise of line 65 is drawn from. *)
NoiseLevels == {5, 95}

-----------------------------------------------------------------------------
(* Constants and pure functions of the source. *)

TRAITS == <<"Small", "Medium", "Large">>

Organism(trait) == [trait |-> trait, energy |-> 0]

(* TRAITS[Math.floor(Math.random() * TRAITS.length)] *)
RandomTrait(r) == TRAITS[((r * Len(TRAITS)) \div 100) + 1]

(* The arrays randomPopulation(size) can return. *)
randomPopulation(size) ==
    [1..size -> {Organism(RandomTrait(r)) : r \in RandLevels}]

Max(a, b) == IF a >= b THEN a ELSE b

(* fitnessForTrait with the small-seed row of line 25 reversed. *)
fitnessForTraitSwappedTable(trait, e) ==
    LET base == IF e.seed = "small"
                THEN (IF trait = "Small" THEN 8000
                      ELSE IF trait = "Medium" THEN 10000 ELSE 12000)
                ELSE IF e.seed = "mixed"
                THEN (IF trait = "Small" THEN 10500
                      ELSE IF trait = "Medium" THEN 11000 ELSE 10000)
                ELSE (IF trait = "Small" THEN 7000
                      ELSE IF trait = "Medium" THEN 10000 ELSE 12500)
        predatorPenalty == e.predatorStrength *
                (IF trait = "Large" THEN 30 ELSE IF trait = "Small" THEN 5 ELSE 15)
    IN  Max(1000, base - predatorPenalty)

(* fitnessForTrait without the Math.max(0.1, ...) of line 33. *)
fitnessForTraitNoFloor(trait, e) ==
    LET base == IF e.seed = "small"
                THEN (IF trait = "Small" THEN 12000
                      ELSE IF trait = "Medium" THEN 10000 ELSE 8000)
                ELSE IF e.seed = "mixed"
                THEN (IF trait = "Small" THEN 10500
                      ELSE IF trait = "Medium" THEN 11000 ELSE 10000)
                ELSE (IF trait = "Small" THEN 7000
                      ELSE IF trait = "Medium" THEN 10000 ELSE 12500)
        predatorPenalty == e.predatorStrength *
                (IF trait = "Large" THEN 30 ELSE IF trait = "Small" THEN 5 ELSE 15)
    IN  base - predatorPenalty

fitnessForTrait(trait, e) ==
    LET base == IF e.seed = "small"
                THEN (IF trait = "Small" THEN 12000
                      ELSE IF trait = "Medium" THEN 10000 ELSE 8000)
                ELSE IF e.seed = "mixed"
                THEN (IF trait = "Small" THEN 10500
                      ELSE IF trait = "Medium" THEN 11000 ELSE 10000)
                ELSE (IF trait = "Small" THEN 7000
                      ELSE IF trait = "Medium" THEN 10000 ELSE 12500)
        predatorPenalty == e.predatorStrength *
                (IF trait = "Large" THEN 30 ELSE IF trait = "Small" THEN 5 ELSE 15)
    IN  Max(1000, base - predatorPenalty)

(* const randomNoise = 0.7 + Math.random() * 0.6, in hundredths *)
randomNoise(r) == 70 + (r * 6) \div 10

(* scored = population.map(org => ({ ...org, score })) for one organism *)
ScoredOrganism(org, e, r) ==
    [trait |-> org.trait, energy |-> org.energy,
     score |-> fitnessForTrait(org.trait, e) * randomNoise(r)]

(* The sort with the comparator (a, b) => a.score - b.score: ascending. *)
RECURSIVE InsertByScoreAscending(_, _)
InsertByScoreAscending(x, sorted) ==
    IF sorted = <<>> THEN <<x>>
    ELSE IF Head(sorted).score <= x.score
         THEN <<Head(sorted)>> \o InsertByScoreAscending(x, Tail(sorted))
         ELSE <<x>> \o sorted

(* Array.prototype.sort((a, b) => b.score - a.score): stable, descending. *)
RECURSIVE InsertByScore(_, _)
InsertByScore(x, sorted) ==
    IF sorted = <<>> THEN <<x>>
    ELSE IF Head(sorted).score >= x.score
         THEN <<Head(sorted)>> \o InsertByScore(x, Tail(sorted))
         ELSE <<x>> \o sorted

RECURSIVE SortByScore(_)
SortByScore(s) ==
    IF s = <<>> THEN <<>>
    ELSE InsertByScore(s[Len(s)], SortByScore(SubSeq(s, 1, Len(s) - 1)))

(* The food loop with the test foodLeft >= 0: one organism too many. *)
RECURSIVE FoodLoopOneMore(_, _, _, _)
FoodLoopOneMore(sc, i, foodLeft, acc) ==
    IF i > Len(sc) THEN acc
    ELSE IF foodLeft >= 0
         THEN FoodLoopOneMore(sc, i + 1, foodLeft - 1, Append(acc, sc[i]))
         ELSE FoodLoopOneMore(sc, i + 1, foodLeft, acc)

(* The food loop: for (i...) if (foodLeft > 0) { foodLeft--; push } *)
RECURSIVE FoodLoop(_, _, _, _)
FoodLoop(sc, i, foodLeft, acc) ==
    IF i > Len(sc) THEN acc
    ELSE IF foodLeft > 0
         THEN FoodLoop(sc, i + 1, foodLeft - 1, Append(acc, sc[i]))
         ELSE FoodLoop(sc, i + 1, foodLeft, acc)

(* survivors.filter(() => Math.random() > env.predatorStrength * 0.5) *)
RECURSIVE PredationFilter(_, _, _)
PredationFilter(surv, rs, e) ==
    IF surv = <<>> THEN <<>>
    ELSE LET rest == PredationFilter(Tail(surv), Tail(rs), e)
         IN  IF Head(rs) * 2 > e.predatorStrength
             THEN <<Head(surv)>> \o rest
             ELSE rest

(* afterPredation.reduce((s, p) => s + p.score, 0) *)
RECURSIVE TotalScore(_)
TotalScore(pool) ==
    IF pool = <<>> THEN 0 ELSE Head(pool).score + TotalScore(Tail(pool))

(* The roulette walk: pick = Math.random() * totalScore; the first p with *)
(* pick <= acc, else afterPredation[0].  Scaled by 100.                   *)
RECURSIVE RouletteWalk(_, _, _, _)
RouletteWalk(pool, i, acc, pick) ==
    IF i > Len(pool) THEN pool[1]
    ELSE IF pick <= (acc + pool[i].score) * 100
         THEN pool[i]
         ELSE RouletteWalk(pool, i + 1, acc + pool[i].score, pick)

PickParent(pool, r) == RouletteWalk(pool, 1, 0, r * TotalScore(pool))

(* The mutation walk taken over all three traits whatever the parent's. *)
MutatedTraitUniform(trait, r) == TRAITS[((r * 3) \div 100) + 1]

(* The mutation walk of a Small parent with the trait name misspelt. *)
MutatedTraitMisspelt(trait, r) ==
    IF trait = "Small" THEN (IF r < 50 THEN "Small" ELSE "medium")
    ELSE IF trait = "Medium" THEN TRAITS[((r * 3) \div 100) + 1]
    ELSE (IF r < 50 THEN "Medium" ELSE "Large")

(* Lines 100-104: the trait of a mutated offspring. *)
MutatedTrait(trait, r) ==
    IF trait = "Small" THEN (IF r < 50 THEN "Small" ELSE "Medium")
    ELSE IF trait = "Medium" THEN TRAITS[((r * 3) \div 100) + 1]
    ELSE (IF r < 50 THEN "Medium" ELSE "Large")

(* Lines 98-106: the offspring of parent p; r2 decides mutate, r3 the walk. *)
Child(p, r2, r3) ==
    LET mutate == r2 < 6
    IN  Organism(IF mutate THEN MutatedTrait(p.trait, r3) ELSE p.trait)

(* Lines 86-96: the parents one iteration of the while loop can pick. *)
Parents(pool) == {PickParent(pool, r1) : r1 \in RandLevels}

(* The offspring one iteration of the while loop can push. *)
Children(pool) ==
    {Child(p, r2, r3) : p \in Parents(pool), r2 \in RandLevels, r3 \in RandLevels}

(* The while loop with each parent taken out of the pool once it has *)
(* reproduced.                                                        *)
RECURSIVE WhileLoopConsuming(_, _, _)
WhileLoopConsuming(pool, size, off) ==
    IF Len(off) < size /\ pool # <<>>
    THEN UNION {WhileLoopConsuming(Tail(pool), size, Append(off, c)) :
                   c \in Children(pool)}
    ELSE {off}

(* The while loop with the test offspring.length <= populationSize. *)
RECURSIVE WhileLoopOneMore(_, _, _)
WhileLoopOneMore(pool, size, off) ==
    IF Len(off) <= size /\ pool # <<>>
    THEN UNION {WhileLoopOneMore(pool, size, Append(off, c)) : c \in Children(pool)}
    ELSE {off}

(* Lines 84-107: the arrays the while loop can end with, started with off. *)
RECURSIVE WhileLoop(_, _, _)
WhileLoop(pool, size, off) ==
    IF Len(off) < size /\ pool # <<>>
    THEN UNION {WhileLoop(pool, size, Append(off, c)) : c \in Children(pool)}
    ELSE {off}

(* useMemo traitCounts *)
CountTrait(pop, t) == Cardinality({i \in 1..Len(pop) : pop[i].trait = t})

traitCounts(pop) ==
    [Small |-> CountTrait(pop, "Small"),
     Medium |-> CountTrait(pop, "Medium"),
     Large |-> CountTrait(pop, "Large")]

(* The record with the generation counter read after its increment. *)
GenerationRecordAfterIncrement(gen, pop, e) ==
    [generation |-> gen + 1, counts |-> traitCounts(pop), env |-> e]

(* Lines 117-121: the record setHistory appends. *)
GenerationRecord(gen, pop, e) ==
    [generation |-> gen, counts |-> traitCounts(pop), env |-> e]

(* setHistory((h) => [record, ...h]): the record put in front. *)
PrependHistory(h, rec) == <<rec>> \o h

(* Lines 115-122: setHistory((h) => [...h, record]). *)
AppendHistory(h, rec) == Append(h, rec)

(* quickScenario: the four names the code compares with, and their presets. *)
ScenarioNames ==
    {"Drought (small seeds)", "Abundant large seeds", "High predators", "Mixed stable"}

(* Names quickScenario can be called with that the code does not compare with. *)
OtherNames == {"Drought", "Abundant", "Volcano"}

(* quickScenario with the predatorStrength of two presets exchanged. *)
ScenarioEnvExchanged(name, e) ==
    LET e1 == IF name = "Drought (small seeds)"
              THEN [seed |-> "small", predatorStrength |-> 20] ELSE e
        e2 == IF name = "Abundant large seeds"
              THEN [seed |-> "large", predatorStrength |-> 10] ELSE e1
        e3 == IF name = "High predators"
              THEN [seed |-> "mixed", predatorStrength |-> 15] ELSE e2
        e4 == IF name = "Mixed stable"
              THEN [seed |-> "mixed", predatorStrength |-> 60] ELSE e3
    IN  e4

ScenarioEnv(name, e) ==
    LET e1 == IF name = "Drought (small seeds)"
              THEN [seed |-> "small", predatorStrength |-> 20] ELSE e
        e2 == IF name = "Abundant large seeds"
              THEN [seed |-> "large", predatorStrength |-> 10] ELSE e1
        e3 == IF name = "High predators"
              THEN [seed |-> "mixed", predatorStrength |-> 60] ELSE e2
        e4 == IF name = "Mixed stable"
              THEN [seed |-> "mixed", predatorStrength |-> 15] ELSE e3
    IN  e4

ScenarioMessage(name) == "Scenario set: " \o name

MsgSimulating == "Simulating generation..."
MsgWeakened == " Population weakened; random immigrants arrived."
MsgComplete == "Generation complete. Observe the changes and adjust environment."
MsgCleared == "History cleared."

-----------------------------------------------------------------------------
(* The state after construction. *)

NoFit == [trait |-> "Small", seed |-> "mixed", predatorStrength |-> 0,
          result |-> 0, score |-> 0, done |-> FALSE]

InitUI ==
    /\ generation = 1
    /\ populationSize = InitPopulationSize
    /\ population \in randomPopulation(InitPopulationSize)
    /\ env = [seed |-> "mixed", predatorStrength |-> 20]
    /\ foodPerGen = InitFoodPerGen
    /\ history = <<>>
    /\ message = ""
    /\ running = FALSE
    /\ timers = 0
    /\ pc = "idle"
    /\ scored = <<>>
    /\ survivors = <<>>
    /\ afterPredation = <<>>
    /\ ops = 0

Init == InitUI /\ fit = NoFit

-----------------------------------------------------------------------------
(* simulateGeneration behind a button that is never disabled. *)
simulateGenerationNeverDisabled ==
    /\ pc = "idle"
    /\ ops < MaxOps
    /\ \E rs \in [1..Len(population) -> NoiseLevels] :
         LET sc == SortByScore([i \in 1..Len(population) |->
                                  ScoredOrganism(population[i], env, rs[i])])
         IN  /\ scored' = sc
             /\ survivors' = FoodLoop(sc, 1, foodPerGen, <<>>)
    /\ running' = TRUE
    /\ message' = MsgSimulating
    /\ pc' = "predation"
    /\ ops' = ops + 1
    /\ UNCHANGED <<generation, populationSize, population, env, foodPerGen,
                   history, timers, afterPredation, fit>>

(* simulateGeneration, lines 59-79: scoring, sort and the food loop. *)
simulateGeneration ==
    /\ pc = "idle"
    /\ ~running
    /\ ops < MaxOps
    /\ \E rs \in [1..Len(population) -> NoiseLevels] :
         LET sc == SortByScore([i \in 1..Len(population) |->
                                  ScoredOrganism(population[i], env, rs[i])])
         IN  /\ scored' = sc
             /\ survivors' = FoodLoop(sc, 1, foodPerGen, <<>>)
    /\ running' = TRUE
    /\ message' = MsgSimulating
    /\ pc' = "predation"
    /\ ops' = ops + 1
    /\ UNCHANGED <<generation, populationSize, population, env, foodPerGen,
                   history, timers, afterPredation, fit>>

(* simulateGeneration, line 81: the predation filter. *)
predation ==
    /\ pc = "predation"
    /\ \E rs \in [1..Len(survivors) -> RandLevels] :
         afterPredation' = PredationFilter(survivors, rs, env)
    /\ scored' = <<>>
    /\ survivors' = <<>>
    /\ pc' = "reproduction"
    /\ UNCHANGED <<generation, populationSize, population, env, foodPerGen,
                   history, message, running, timers, ops, fit>>

(* The end of the step with the padding of line 111 but without the *)
(* setMessage of line 112.                                            *)
reproductionSilentPadding ==
    /\ pc = "reproduction"
    /\ \E off \in WhileLoop(afterPredation, populationSize, <<>>) :
         IF Len(off) < populationSize
         THEN \E imm \in randomPopulation(populationSize - Len(off)) :
                   population' = off \o imm
         ELSE population' = off
    /\ message' = message
    /\ history' = AppendHistory(history, GenerationRecord(generation, population, env))
    /\ generation' = generation + 1
    /\ timers' = timers + 1
    /\ pc' = "idle"
    /\ afterPredation' = <<>>
    /\ UNCHANGED <<populationSize, env, foodPerGen, running, scored, survivors,
                   ops, fit>>

(* simulateGeneration, lines 83-129: the while loop, the padding, the *)
(* history record, the new population and generation, the timer.     *)
reproduction ==
    /\ pc = "reproduction"
    /\ \E off \in WhileLoop(afterPredation, populationSize, <<>>) :
         IF Len(off) < populationSize
         THEN /\ \E imm \in randomPopulation(populationSize - Len(off)) :
                   population' = off \o imm
              /\ message' = message \o MsgWeakened
         ELSE /\ population' = off
              /\ message' = message
    /\ history' = AppendHistory(history, GenerationRecord(generation, population, env))
    /\ generation' = generation + 1
    /\ timers' = timers + 1
    /\ pc' = "idle"
    /\ afterPredation' = <<>>
    /\ UNCHANGED <<populationSize, env, foodPerGen, running, scored, survivors,
                   ops, fit>>

(* The callback with the setGeneration of line 125 moved into it. *)
timerFiresAdvancesGeneration ==
    /\ pc = "idle"
    /\ timers > 0
    /\ timers' = timers - 1
    /\ running' = FALSE
    /\ message' = MsgComplete
    /\ generation' = generation + 1
    /\ UNCHANGED <<populationSize, population, env, foodPerGen,
                   history, pc, locals, ops, fit>>

(* The setTimeout callback of lines 126-129. *)
timerFires ==
    /\ pc = "idle"
    /\ timers > 0
    /\ timers' = timers - 1
    /\ running' = FALSE
    /\ message' = MsgComplete
    /\ UNCHANGED <<generation, populationSize, population, env, foodPerGen,
                   history, pc, locals, ops, fit>>

(* resetSimulation that also cancels the pending callback (clearTimeout) *)
(* and leaves running as it is.                                           *)
resetSimulationCancelsTimer ==
    /\ pc = "idle"
    /\ ops < MaxOps
    /\ generation' = 1
    /\ population' \in randomPopulation(populationSize)
    /\ history' = <<>>
    /\ message' = ""
    /\ timers' = 0
    /\ ops' = ops + 1
    /\ UNCHANGED <<populationSize, env, foodPerGen, running, pc, locals, fit>>

(* resetSimulation with setGeneration(0). *)
resetSimulationToZero ==
    /\ pc = "idle"
    /\ ops < MaxOps
    /\ generation' = 0
    /\ population' \in randomPopulation(populationSize)
    /\ history' = <<>>
    /\ message' = ""
    /\ ops' = ops + 1
    /\ UNCHANGED <<populationSize, env, foodPerGen, running, timers, pc, locals, fit>>

(* resetSimulation without setHistory([]). *)
resetSimulationKeepsHistory ==
    /\ pc = "idle"
    /\ ops < MaxOps
    /\ generation' = 1
    /\ population' \in randomPopulation(populationSize)
    /\ message' = ""
    /\ ops' = ops + 1
    /\ UNCHANGED <<populationSize, env, foodPerGen, history, running, timers, pc,
                   locals, fit>>

(* resetSimulation, lines 132-137. *)
resetSimulation ==
    /\ pc = "idle"
    /\ ops < MaxOps
    /\ generation' = 1
    /\ population' \in randomPopulation(populationSize)
    /\ history' = <<>>
    /\ message' = ""
    /\ ops' = ops + 1
    /\ UNCHANGED <<populationSize, env, foodPerGen, running, timers, pc, locals, fit>>

(* quickScenario(name), lines 139-145. *)
quickScenario(name) ==
    /\ pc = "idle"
    /\ ops < MaxOps
    /\ env' = ScenarioEnv(name, env)
    /\ message' = ScenarioMessage(name)
    /\ ops' = ops + 1
    /\ UNCHANGED <<generation, populationSize, population, foodPerGen, history,
                   running, timers, pc, locals, fit>>

(* The "- Food" button without Math.max: setFoodPerGen((f) => f - 1). *)
foodDownUnclamped ==
    /\ pc = "idle"
    /\ ops < MaxOps
    /\ foodPerGen' = foodPerGen - 1
    /\ ops' = ops + 1
    /\ UNCHANGED <<generation, populationSize, population, env, history, message,
                   running, timers, pc, locals, fit>>

(* The "- Food" button, line 216. *)
foodDown ==
    /\ pc = "idle"
    /\ ops < MaxOps
    /\ foodPerGen' = Max(1, foodPerGen - 1)
    /\ ops' = ops + 1
    /\ UNCHANGED <<generation, populationSize, population, env, history, message,
                   running, timers, pc, locals, fit>>

(* The "+ Food" button, line 217. *)
foodUp ==
    /\ pc = "idle"
    /\ ops < MaxOps
    /\ foodPerGen' = foodPerGen + 1
    /\ ops' = ops + 1
    /\ UNCHANGED <<generation, populationSize, population, env, history, message,
                   running, timers, pc, locals, fit>>

(* The slider without the effect of lines 46-51. *)
setPopulationSizeWithoutEffect(n) ==
    /\ pc = "idle"
    /\ ops < MaxOps
    /\ populationSize' = n
    /\ ops' = ops + 1
    /\ UNCHANGED <<generation, population, env, foodPerGen, history, message,
                   running, timers, pc, locals, fit>>

(* The slider, line 220, with the effect of lines 46-51 it triggers. *)
setPopulationSize(n) ==
    /\ pc = "idle"
    /\ ops < MaxOps
    /\ populationSize' = n
    /\ IF Len(population) = n
       THEN population' = population
       ELSE population' \in randomPopulation(n)
    /\ ops' = ops + 1
    /\ UNCHANGED <<generation, env, foodPerGen, history, message, running,
                   timers, pc, locals, fit>>

(* The "Clear History" button, line 250. *)
clearHistory ==
    /\ pc = "idle"
    /\ ops < MaxOps
    /\ history' = <<>>
    /\ message' = MsgCleared
    /\ ops' = ops + 1
    /\ UNCHANGED <<generation, populationSize, population, env, foodPerGen,
                   running, timers, pc, locals, fit>>

(* The fitness harness: fitnessForTrait (lines 22-34) and the score of *)
(* lines 64-66 applied to inputs drawn by InitFit.                      *)
evaluateFitness ==
    /\ ~fit.done
    /\ \E r \in RandLevels :
         LET f == fitnessForTrait(fit.trait, [seed |-> fit.seed,
                                              predatorStrength |-> fit.predatorStrength])
         IN  fit' = [fit EXCEPT !.result = f, !.score = f * randomNoise(r),
                                !.done = TRUE]
    /\ UNCHANGED uiVars

Next ==
    \/ simulateGeneration
    \/ predation
    \/ reproduction
    \/ timerFires
    \/ resetSimulation
    \/ \E name \in ScenarioNames \cup OtherNames : quickScenario(name)
    \/ foodDown
    \/ foodUp
    \/ \E n \in PopSizes : setPopulationSize(n)
    \/ clearHistory

Spec == Init /\ [][Next]_vars

(* The same program with its scheduling: a running handler goes on to its *)
(* end (lines 59-129 are one synchronous call) and a callback set by      *)
(* setTimeout at line 126 is eventually called.                           *)
SpecLive ==
    /\ Init
    /\ [][Next]_vars
    /\ WF_vars(predation)
    /\ WF_vars(reproduction)
    /\ WF_vars(timerFires)

(* fitnessForTrait on its own, over every trait, every seed regime and *)
(* predatorStrength 0 .. MaxPredatorStrength hundredths.               *)
InitFit ==
    /\ InitUI
    /\ fit \in [trait : {"Small", "Medium", "Large"},
                seed : {"small", "mixed", "large"},
                predatorStrength : 0..MaxPredatorStrength,
                result : {0}, score : {0}, done : {FALSE}]

NextFit == evaluateFitness

SpecFit == InitFit /\ [][NextFit]_vars

-----------------------------------------------------------------------------
(* Properties. *)

Traits == {"Small", "Medium", "Large"}

(* The transition on which simulateGeneration stores its results. *)
StepCommits == pc = "reproduction" /\ pc' = "idle"

(* The number of organisms of pop with trait t, counted by filtering. *)
NumberWithTrait(pop, t) == Len(SelectSeq(pop, LAMBDA o : o.trait = t))

(* C1: in every reachable state the stored population has exactly *)
(* populationSize organisms.                                       *)
PopulationHasConfiguredSize == Len(population) = populationSize

(* A step, then a change of populationSize. *)
ResizedAfterStep ==
    /\ pc = "idle"
    /\ generation = 2
    /\ populationSize # InitPopulationSize
    /\ Len(population) = populationSize

(* C2: a generation step appends exactly one record to history and keeps *)
(* every earlier record in place; every other transition leaves history  *)
(* as it is or empties it, so no existing record is ever altered.        *)
HistoryAppendOnly ==
    [][ /\ StepCommits =>
              /\ Len(history') = Len(history) + 1
              /\ SubSeq(history', 1, Len(history)) = history
        /\ ~StepCommits => (history' = history \/ history' = <<>>) ]_vars

(* Two steps in a row: the second one found a record in history. *)
SecondRecordAppended ==
    /\ pc = "idle"
    /\ Len(history) = 2
    /\ history[1].generation = 1
    /\ history[2].generation = 2

(* C3: the record a step appends holds the generation counter before the *)
(* increment, the Small/Medium/Large counts of the population before it  *)
(* is replaced (summing to its length) and the environment of the step.  *)
RecordHoldsPreStepState ==
    [][ StepCommits =>
          LET r == history'[Len(history')]
          IN  /\ r.generation = generation
              /\ r.generation = generation' - 1
              /\ r.counts.Small = NumberWithTrait(population, "Small")
              /\ r.counts.Medium = NumberWithTrait(population, "Medium")
              /\ r.counts.Large = NumberWithTrait(population, "Large")
              /\ r.counts.Small + r.counts.Medium + r.counts.Large = Len(population)
              /\ r.env = env ]_vars

(* A step whose record differs from the counts of the new population. *)
RecordDiffersFromNewPopulation ==
    /\ pc = "idle"
    /\ Len(history) = 1
    /\ history[1].generation = 1
    /\ history[1].counts.Small # NumberWithTrait(population, "Small")
    /\ generation = 2

(* C4: the generation counter is at least 1; a step increases it by *)
(* exactly 1; only a step or a reset changes it.                    *)
GenerationCounter ==
    /\ [](generation >= 1)
    /\ [][ /\ StepCommits => generation' = generation + 1
           /\ generation' # generation => (StepCommits \/ resetSimulation) ]_vars

(* The first step from the fresh state. *)
FirstStepMakesTwo ==
    /\ pc = "idle"
    /\ ops = 1
    /\ generation = 2
    /\ Len(history) = 1

(* The presets as the specification names them. *)
PresetNames == {"Drought", "Abundant", "High predators", "Mixed stable"}

PresetOf(name) ==
    CASE name = "Drought" -> [seed |-> "small", predatorStrength |-> 20]
      [] name = "Abundant" -> [seed |-> "large", predatorStrength |-> 10]
      [] name = "High predators" -> [seed |-> "mixed", predatorStrength |-> 60]
      [] name = "Mixed stable" -> [seed |-> "mixed", predatorStrength |-> 15]

(* The string quickScenario compares with for each preset. *)
LiteralOf(name) ==
    CASE name = "Drought" -> "Drought (small seeds)"
      [] name = "Abundant" -> "Abundant large seeds"
      [] OTHER -> name

(* C5, as claimed: called with the name Drought, Abundant, High predators *)
(* or Mixed stable, quickScenario sets the environment to that preset and *)
(* changes neither population, generation, food budget nor history.       *)
ScenarioSetsPresetByShortName ==
    [][ \A name \in PresetNames :
          quickScenario(name) =>
              /\ env' = PresetOf(name)
              /\ UNCHANGED <<population, generation, foodPerGen, history>> ]_vars

(* C5, amended: the same for the names "Drought (small seeds)",        *)
(* "Abundant large seeds", "High predators" and "Mixed stable".        *)
ScenarioSetsPresetByLiteralName ==
    [][ \A name \in PresetNames :
          quickScenario(LiteralOf(name)) =>
              /\ env' = PresetOf(name)
              /\ UNCHANGED <<population, generation, foodPerGen, history>> ]_vars

(* The Drought preset applied after a step. *)
DroughtApplied ==
    /\ pc = "idle"
    /\ message = ScenarioMessage("Drought (small seeds)")
    /\ env = [seed |-> "small", predatorStrength |-> 20]
    /\ generation = 2

(* C6: quickScenario called with an unrecognized name leaves the        *)
(* environment unchanged and does not report a successful scenario      *)
(* change.                                                              *)
UnrecognizedScenarioRejected ==
    [][ quickScenario("Volcano") =>
          /\ env' = env
          /\ message' # ScenarioMessage("Volcano") ]_vars

(* C7, as claimed: with foodPerGen = 1 and the initial populationSize,  *)
(* whatever the draws, the while loop fills the whole new population.   *)
OneSurvivorAlwaysFills ==
    (pc = "reproduction" /\ foodPerGen = 1 /\ populationSize = InitPopulationSize)
        => \A off \in WhileLoop(afterPredation, populationSize, <<>>) :
               Len(off) = populationSize

(* C7, amended: with foodPerGen = 1 exactly one organism survives the   *)
(* food stage; if it passes the predation filter the while loop fills   *)
(* the whole population from it and the step pads nothing and emits no  *)
(* notice; if predation removes it the loop produces nothing and the    *)
(* step pads the whole population and emits the notice.                 *)
OneSurvivorFillsUnlessEaten ==
    [][ /\ (pc = "predation" /\ foodPerGen = 1) =>
              /\ Len(survivors) = 1
              /\ Len(afterPredation') <= 1
        /\ (pc = "reproduction" /\ foodPerGen = 1) =>
              /\ Len(afterPredation) <= 1
              /\ \A off \in WhileLoop(afterPredation, populationSize, <<>>) :
                    IF afterPredation # <<>>
                    THEN /\ Len(off) = populationSize
                         /\ \A i \in 1..Len(off) : off[i] \in Children(afterPredation)
                    ELSE off = <<>>
              /\ IF afterPredation # <<>>
                 THEN /\ message' = MsgSimulating
                      /\ population' \in WhileLoop(afterPredation, populationSize, <<>>)
                 ELSE message' = MsgSimulating \o MsgWeakened ]_vars

(* The single survivor passed predation. *)
OneSurvivorReproduces ==
    /\ pc = "reproduction"
    /\ foodPerGen = 1
    /\ populationSize = InitPopulationSize
    /\ populationSize > 1
    /\ Len(afterPredation) = 1

(* C8: the fitness is at least 0.1 and the score is strictly positive. *)
FitnessAtLeastFloor ==
    fit.done => (fit.result >= 1000 /\ fit.score > 0)

(* An input whose base minus penalty is below 0.1. *)
FloorApplied ==
    /\ fit.done
    /\ fit.trait = "Large"
    /\ fit.seed = "small"
    /\ fit.predatorStrength = 300
    /\ fit.result = 1000

(* C9: at predatorStrength 0, small seeds order the fitness Small >    *)
(* Medium > Large and large seeds order it Large > Medium > Small.     *)
FitnessOrderFollowsSeed ==
    (fit.done /\ fit.predatorStrength = 0) =>
        LET F(t) == fitnessForTrait(t, [seed |-> fit.seed, predatorStrength |-> 0])
        IN  /\ fit.result = F(fit.trait)
            /\ fit.seed = "small" => (F("Small") > F("Medium") /\ F("Medium") > F("Large"))
            /\ fit.seed = "large" => (F("Large") > F("Medium") /\ F("Medium") > F("Small"))

(* Large beaks on large seeds without predators. *)
LargeSeedsEvaluated ==
    /\ fit.done
    /\ fit.predatorStrength = 0
    /\ fit.seed = "large"
    /\ fit.trait = "Large"
    /\ fit.result = 12500

(* C10: reset leaves generation 1, an empty history and a population of *)
(* populationSize organisms with valid traits, and changes neither the  *)
(* environment, the food budget nor populationSize.                     *)
ResetRestartsSimulation ==
    [][ resetSimulation =>
          /\ generation' = 1
          /\ history' = <<>>
          /\ Len(population') = populationSize
          /\ \A i \in 1..Len(population') : population'[i].trait \in Traits
          /\ UNCHANGED <<env, foodPerGen, populationSize>> ]_vars

(* A reset while the completion callback of a step is pending. *)
ResetDuringDelay ==
    /\ pc = "idle"
    /\ running
    /\ timers = 1
    /\ ops = 2
    /\ generation = 1
    /\ history = <<>>
    /\ message = ""

-----------------------------------------------------------------------------
(* C11: in every reachable state every organism, of the population and of *)
(* the arrays of a step in progress, has one of the three traits Small,   *)
(* Medium, Large: the factory, reproduction with and without mutation and *)
(* the padding with immigrants produce no other trait.                    *)
TraitsAreValid ==
    /\ \A i \in 1..Len(population) : population[i].trait \in Traits
    /\ \A i \in 1..Len(scored) : scored[i].trait \in Traits
    /\ \A i \in 1..Len(survivors) : survivors[i].trait \in Traits
    /\ \A i \in 1..Len(afterPredation) : afterPredation[i].trait \in Traits

(* A step filled the population by reproduction alone and a mutation *)
(* brought in a trait the previous population did not have.           *)
MutationBroughtNewTrait ==
    /\ pc = "idle"
    /\ ops = 1
    /\ generation = 2
    /\ message = MsgSimulating
    /\ \E i \in 1..Len(population) : history[1].counts[population[i].trait] = 0

(* C12: steps are serialized: at most one completion callback is pending, *)
(* a step in progress is marked running and has no callback of an earlier *)
(* step pending, and a pending callback means running is still true, so   *)
(* no step starts before the previous one was signalled complete.         *)
StepsSerialized ==
    /\ timers <= 1
    /\ pc # "idle" => (running /\ timers = 0)
    /\ timers = 1 => running

(* A second step in progress, started after the first was signalled. *)
SecondStepAfterCompletion ==
    /\ pc = "predation"
    /\ generation = 2
    /\ running
    /\ timers = 0

(* C13: after the food loop the survivors are the first min(foodPerGen,   *)
(* population length) organisms of the sorted array, and no organism left *)
(* out has a strictly higher score than one admitted.                     *)
SurvivorsAreHighestScoring ==
    pc = "predation" =>
        LET k == IF foodPerGen < Len(population) THEN foodPerGen ELSE Len(population)
        IN  /\ Len(scored) = Len(population)
            /\ Len(survivors) = k
            /\ survivors = SubSeq(scored, 1, k)
            /\ \A i \in 1..k : \A j \in (k + 1)..Len(scored) :
                   scored[j].score <= scored[i].score

(* The food loop left out an organism of strictly lower score. *)
LowerScoreLeftOut ==
    /\ pc = "predation"
    /\ survivors # <<>>
    /\ Len(survivors) < Len(scored)
    /\ scored[Len(scored)].score < survivors[Len(survivors)].score

(* C14: the padding with immigrants and the population-weakened notice    *)
(* happen together and exactly when the while loop ended with fewer than  *)
(* populationSize offspring; the padding then adds exactly populationSize *)
(* minus the offspring count organisms; when reproduction filled the      *)
(* population there is no padding and no notice.                          *)
PaddingComesWithNotice ==
    [][StepCommits =>
         \E off \in WhileLoop(afterPredation, populationSize, <<>>) :
            /\ Len(off) <= Len(population')
            /\ SubSeq(population', 1, Len(off)) = off
            /\ IF Len(off) < populationSize
               THEN /\ Len(population') = Len(off) + (populationSize - Len(off))
                    /\ message' = message \o MsgWeakened
               ELSE /\ population' = off
                    /\ message' = message]_vars

(* A step that padded the population and appended the notice. *)
PaddedWithNotice ==
    /\ pc = "idle"
    /\ ops = 1
    /\ generation = 2
    /\ Len(population) = populationSize
    /\ message = MsgSimulating \o MsgWeakened

(* The traits an offspring of a parent with the given trait can have. *)
MutationWalk(trait) ==
    IF trait = "Small" THEN {"Small", "Medium"}
    ELSE IF trait = "Large" THEN {"Medium", "Large"}
    ELSE Traits

(* C15: every parent the while loop can pick is a member of the           *)
(* post-predation pool of the step, and an offspring of a Small parent is *)
(* Small or Medium, of a Large parent Medium or Large, of a Medium parent *)
(* any of the three; every organism of a population filled by             *)
(* reproduction is such an offspring of a member of the pool.             *)
OffspringFollowParent ==
    [][(StepCommits /\ afterPredation # <<>>) =>
         /\ \A p \in Parents(afterPredation) :
               /\ \E j \in 1..Len(afterPredation) : afterPredation[j] = p
               /\ \A r2 \in RandLevels : \A r3 \in RandLevels :
                     Child(p, r2, r3).trait \in MutationWalk(p.trait)
         /\ \A i \in 1..Len(population') :
               \E j \in 1..Len(afterPredation) :
                  population'[i].trait \in MutationWalk(afterPredation[j].trait)]_vars

(* A population of Small organisms only produced a Medium offspring. *)
SmallParentMediumChild ==
    /\ pc = "idle"
    /\ ops = 1
    /\ generation = 2
    /\ message = MsgSimulating
    /\ history[1].counts.Small = InitPopulationSize
    /\ \E i \in 1..Len(population) : population[i].trait = "Medium"

(* C16: when the slider sets populationSize to n and the population has  *)
(* another length, the population is replaced by a random population of  *)
(* exactly n organisms; when its length already is n it is left          *)
(* untouched; generation, history, environment and foodPerGen are        *)
(* unchanged either way.                                                 *)
ResizeReplacesPopulationOnly ==
    [][\A n \in PopSizes :
         setPopulationSize(n) =>
            /\ populationSize' = n
            /\ UNCHANGED <<generation, history, env, foodPerGen>>
            /\ IF Len(population) = n
               THEN population' = population
               ELSE /\ Len(population') = n
                    /\ \A i \in 1..n :
                          population'[i] \in {Organism(t) : t \in Traits}]_vars

(* The slider moved to the smallest size before any step. *)
ResizedToSmallest ==
    /\ pc = "idle"
    /\ ops = 1
    /\ generation = 1
    /\ populationSize = MinPopSize
    /\ Len(population) = MinPopSize
    /\ MinPopSize # InitPopulationSize

(* C17: when the completion callback fires it sets running to false and  *)
(* the message to the completion text and changes nothing else:          *)
(* population, generation, history, environment, foodPerGen and          *)
(* populationSize are as before it, also after a reset, scenario change  *)
(* or clear during the delay.                                            *)
CallbackChangesRunningAndMessageOnly ==
    [][timers' < timers =>
         /\ running' = FALSE
         /\ message' = MsgComplete
         /\ UNCHANGED <<population, generation, history, env, foodPerGen,
                        populationSize>>]_vars

(* The callback of a step fired after a reset during the delay. *)
CallbackFiredAfterReset ==
    /\ pc = "idle"
    /\ ~running
    /\ timers = 0
    /\ ops = 2
    /\ generation = 1
    /\ history = <<>>
    /\ message = MsgComplete

(* C18: foodPerGen is an integer of at least 1 in every reachable state; *)
(* only the two food buttons change it, the increment by one and the     *)
(* decrement by one but never below 1; a step, reset, scenario change,   *)
(* resize or clear leaves it as it is.                                   *)
FoodAtLeastOne ==
    /\ [](foodPerGen \in Nat /\ foodPerGen >= 1)
    /\ [][foodPerGen' # foodPerGen =>
            /\ pc = "idle" /\ pc' = "idle"
            /\ ops' = ops + 1
            /\ foodPerGen' \in {foodPerGen + 1, Max(1, foodPerGen - 1)}
            /\ UNCHANGED <<generation, populationSize, population, env,
                           history, message, running, timers>>]_vars

(* Food raised by the button, and a step run with it. *)
FoodRaisedAndStepRun ==
    /\ pc = "idle"
    /\ ops = 2
    /\ generation = 2
    /\ foodPerGen = InitFoodPerGen + 1

(* C19: replenishment is all-or-nothing: the food loop leaves at least    *)
(* one survivor; the while loop ends with no offspring when predation     *)
(* removed every survivor and with exactly populationSize offspring       *)
(* otherwise; the new population is entirely offspring, without notice,   *)
(* or entirely immigrants, with the notice, and it is padded if and only  *)
(* if the post-predation pool is empty.                                   *)
ReplenishmentAllOrNothing ==
    /\ [](pc = "reproduction" =>
            /\ populationSize >= 1
            /\ \A off \in WhileLoop(afterPredation, populationSize, <<>>) :
                  Len(off) = IF afterPredation = <<>> THEN 0 ELSE populationSize)
    /\ [][/\ (pc = "predation" /\ pc' = "reproduction") => survivors # <<>>
          /\ (StepCommits /\ afterPredation # <<>>) =>
               /\ message' = message
               /\ Len(population') = populationSize
               /\ \A i \in 1..Len(population') :
                     population'[i] \in Children(afterPredation)
          /\ (StepCommits /\ afterPredation = <<>>) =>
               /\ message' = message \o MsgWeakened
               /\ population' \in randomPopulation(populationSize)]_vars

(* Food for two survivors, predation removed both, the whole population *)
(* was padded.                                                           *)
AllSurvivorsRemoved ==
    /\ pc = "idle"
    /\ ops = 2
    /\ generation = 2
    /\ foodPerGen = InitFoodPerGen + 1
    /\ message = MsgSimulating \o MsgWeakened

(* C20: every started step is eventually signalled complete: whenever     *)
(* running is true it eventually is false, given that the handler runs to *)
(* its end and the timer callback eventually fires, whatever reset,       *)
(* scenario change, resize or clear happens meanwhile; the step button is *)
(* never disabled forever.                                                *)
StepEventuallySignalled == running ~> ~running

(* A step signalled complete although its history was cleared during *)
(* the delay.                                                         *)
SignalledAfterClear ==
    /\ pc = "idle"
    /\ ~running
    /\ timers = 0
    /\ ops = 2
    /\ generation = 2
    /\ history = <<>>
    /\ message = MsgComplete

====
